---- MODULE Spec2Model ----
(***************************************************************************)
(* A model of unreal_engine_docset.py: the structured-document reader,     *)
(* the API classifier, the collector tables, the page processors, the      *)
(* parallel docset processors and generate_docset.                         *)
(*                                                                         *)
(* Texts (page titles, declaration texts, anchor names) are sequences of   *)
(* tokens: one token per identifier character, one per declaration         *)
(* keyword, and the separators " ", "\n", "::", ".", "(".  Paths and link  *)
(* targets are sequences of path segments.                                 *)
(***************************************************************************)
EXTENDS Integers, Sequences, FiniteSets, TLC

VARIABLES
    flavor,      \* docset_type inferred from the archive name
    mainPc,      \* position of generate_docset
    disk,        \* existing files: path -> content last written
    progress,    \* per file: how much of the content is on disk right now
    queue,       \* html_files not yet dispatched to a worker
    wk,          \* per worker: the state of its process_*_html_file call
    results,     \* entries returned so far by completed page calls
    entries,     \* the set returned by process_*_docset
    database,    \* rows of searchIndex, once committed
    plist,       \* the mapping written to Info.plist
    writes,      \* history: per file, the workers that rewrote it, in order
    touching,    \* history: a worker read a page another worker was processing
    runs,        \* how many times the page processor was started
    apiName,     \* classifier input: the page title
    apiSyntax,   \* classifier input: the declaration text
    apiResult    \* classifier output

vars == <<flavor, mainPc, disk, progress, queue, wk, results, entries,
          database, plist, writes, touching, runs, apiName, apiSyntax, apiResult>>

-----------------------------------------------------------------------------
(* Bounds of the model.                                                    *)

MaxCands == 2      \* candidate elements per populated page region
NumWorkers == 2    \* size of the worker pool
MaxDecls == 2      \* declarations in a classified declaration text
MaxRuns == 2       \* runs of the page processor over the same page

(* read_xml_file(xml_path, attempts=10)                                    *)
DefaultAttempts == 10

-----------------------------------------------------------------------------
(* Sequences helpers.                                                      *)

Last(s) == s[Len(s)]

Front(s) == SubSeq(s, 1, Len(s) - 1)

SeqsUpTo(S, n) == UNION {[1..k -> S] : k \in 0..n}

Range(s) == {s[k] : k \in 1..Len(s)}

Count(s, x) == Cardinality({k \in 1..Len(s) : s[k] = x})

-----------------------------------------------------------------------------
(* The API classifier.                                                     *)

\* MAPPING_API_TYPE_TO_ENTRY_TYPE, in insertion order.
MAPPING_API_TYPE_TO_ENTRY_TYPE ==
    << <<"class", "Class">>, <<"UCLASS", "Class">>, <<"struct", "Struct">>,
       <<"USTRUCT", "Struct">>, <<"union", "Union">> >>

Keywords == {m[1] : m \in Range(MAPPING_API_TYPE_TO_ENTRY_TYPE)}

ApiInformation(name, ue_type, dash_type) ==
    [name |-> name, ue_type |-> ue_type, dash_type |-> dash_type]

\* re.compile raises re.error on an unterminated group.
ReError(pattern) == \E k \in 1..Len(pattern) : pattern[k] = "("

\* The pattern matches the text at offset o; "." is the wildcard of the
\* regular expression language: any single character but a line break.
ReMatchAt(pattern, text, o) ==
    \A k \in 1..Len(pattern) :
        IF pattern[k] = "."
        THEN text[o + k - 1] \notin ({"\n"} \cup Keywords)
        ELSE text[o + k - 1] = pattern[k]

\* re.search(pattern, text, re.MULTILINE) is not None
ReSearch(pattern, text) ==
    \E o \in 1..(Len(text) - Len(pattern) + 1) : ReMatchAt(pattern, text, o)

\* f"{api_type} {api_name}"
ApiPattern(api_type, api_name) == <<api_type, " ">> \o api_name

\* The loop of collect_api_information from mapping item k on.
RECURSIVE ClassifyFrom(_, _, _)
ClassifyFrom(k, api_name, api_syntax) ==
    IF k > Len(MAPPING_API_TYPE_TO_ENTRY_TYPE)
    THEN ApiInformation(api_name, "object", "Object")
    ELSE LET api_type == MAPPING_API_TYPE_TO_ENTRY_TYPE[k][1]
             entry_type == MAPPING_API_TYPE_TO_ENTRY_TYPE[k][2]
             pattern == ApiPattern(api_type, api_name)
         IN  IF ReError(pattern)
             THEN ClassifyFrom(k + 1, api_name, api_syntax)
             ELSE IF ReSearch(pattern, api_syntax)
                  THEN ApiInformation(api_name, api_type, entry_type)
                  ELSE ClassifyFrom(k + 1, api_name, api_syntax)

collect_api_information(api_name, api_syntax) ==
    ClassifyFrom(1, api_name, api_syntax)

NoApiResult == ApiInformation(<<>>, "none", "none")

-----------------------------------------------------------------------------
(* Paths, pages and the collector tables.                                  *)

\* join_path: a trailing index.html is stripped from the parent, then the
\* name is joined to it.
join_path(parent, name) ==
    (IF parent # <<>> /\ Last(parent) = "index.html" THEN Front(parent) ELSE parent)
        \o name

\* Variant: a target that names the page itself, without the fragment.
PagePathAlone(html_path, name) == html_path

\* f"{html_path}#{name}": the page path, the fragment mark and the name.
FragmentPath(html_path, name) == html_path \o <<"#">> \o name

Element(tag, href, text) == [tag |-> tag, href |-> href, text |-> text]

Collector(type, xpath, processor) ==
    [type |-> type, xpath |-> xpath, processor |-> processor]

\* An XPath selects the elements of one tag in one region of the page; the
\* a[not(@class="dashAnchor")] of the expressions keeps injected anchors out.
COLLECTORS_CPP ==
    << Collector("Module", "modules-list/a", "collector_cpp_default"),
       Collector("Class", "classes/a", "collector_cpp_default"),
       Collector("Constructor", "constructor/a", "collector_cpp_default"),
       Collector("Destructor", "destructor/a", "collector_cpp_default"),
       Collector("Type", "typedefs/a", "collector_cpp_default"),
       Collector("Enum", "enums/a", "collector_cpp_default"),
       Collector("Variable", "variables/a", "collector_cpp_default"),
       Collector("Variable", "deprecatedvariables/a", "collector_cpp_default"),
       Collector("Variable", "variables/p", "collector_cpp_nohref"),
       Collector("Variable", "deprecatedvariables/p", "collector_cpp_nohref"),
       Collector("Constant", "constants/a", "collector_cpp_default"),
       Collector("Function", "functions_/a", "collector_cpp_default"),
       Collector("Function", "deprecatedfunctions/a", "collector_cpp_default") >>

COLLECTORS_BLUEPRINT ==
    << Collector("Function", "actions/a", "collector_blueprint_default"),
       Collector("Category", "categories/a", "collector_blueprint_default") >>

XPaths == {c.xpath : c \in Range(COLLECTORS_CPP) \cup Range(COLLECTORS_BLUEPRINT)}

\* The page processor generate_docset selects for a flavor, as its table.
Collectors(fl) == IF fl = "blueprint" THEN COLLECTORS_BLUEPRINT ELSE COLLECTORS_CPP

\* A page: its h1 title, the text of its syntax blocks, the candidate
\* elements each XPath selects, and the Dash anchors it holds.
Page(title, syntax, elems) ==
    [title |-> title, syntax |-> syntax,
     elems |-> [x \in XPaths |-> IF x \in DOMAIN elems THEN elems[x] ELSE <<>>],
     anchors |-> <<>>]

NoXml == [title |-> <<>>, syntax |-> <<>>, elems |-> [x \in XPaths |-> <<>>],
          anchors |-> <<>>]

Entry(name, path, type) == [name |-> name, path |-> path, type |-> type]

\* Path(collected_path).exists() in the collectors.
CollectedPathExists(collected_path) == collected_path \in DOMAIN disk

\* Variant: a page processor that builds the Entry without the test.
CollectedHtmlPathAlwaysExists(collected_html_path) == TRUE

\* Path(collected_html_path).exists() in the page processors.
CollectedHtmlPathExists(collected_html_path) == collected_html_path \in DOMAIN disk

\* localiser: a link to a directory that holds an index.html is pointed at
\* that index.html.
localiser(html_path, link) ==
    IF (Front(html_path) \o link \o <<"index.html">>) \in DOMAIN disk
    THEN link \o <<"index.html">>
    ELSE link

\* xml.rewrite_links(localiser)
rewrite_links(xml, html_path) ==
    [xml EXCEPT !.elems =
        [x \in XPaths |->
            [k \in 1..Len(xml.elems[x]) |->
                IF xml.elems[x][k].tag = "a"
                THEN [xml.elems[x][k] EXCEPT
                         !.href = localiser(html_path, xml.elems[x][k].href)]
                ELSE xml.elems[x][k]]]]

\* html.escape
EscapeToken(t) ==
    CASE t = "&" -> "&amp;"
      [] t = "<" -> "&lt;"
      [] t = ">" -> "&gt;"
      [] t = "\"" -> "&quot;"
      [] t = "'" -> "&#x27;"
      [] OTHER -> t

HtmlEscape(name) == [k \in 1..Len(name) |-> EscapeToken(name[k])]

\* collected_name.split("::")[-1]
LocalAnchorName(name) ==
    LET seps == {k \in 1..Len(name) : name[k] = "::"}
    IN  IF seps = {} THEN name
        ELSE SubSeq(name, (CHOOSE k \in seps : \A j \in seps : j <= k) + 1, Len(name))

\* f" (Overload {count})"
OverloadSuffix(count) == <<" (Overload ", ToString(count), ")">>

\* The list of bare anchor names that numbers the overloads: the state of
\* `anchors` when a collector of the table starts.
AnchorsAtCollectorStart(anchors) == <<>>

\* Variant: a page processor that never finds the anchors of the page.
HasNoDashAnchors(xml) == FALSE

\* has_dash_anchors = len(xml.xpath('.//a[@class="dashAnchor"]')) != 0
HasDashAnchors(xml) == xml.anchors # <<>>

\* What a read of the file finds of the content being written to it.
\*   whole: all of it; empty: nothing (the file was truncated by open "w");
\*   head: the bytes before the h1 title; title: the bytes up to the title,
\*   before the syntax blocks.
ProgressLevels == <<"empty", "head", "title", "whole">>

Level(p) == CHOOSE k \in 1..Len(ProgressLevels) : ProgressLevels[k] = p

\* fromstring raises etree.ParserError on an empty document.
ParserError(path) == progress[path] = "empty"

\* collect_api_name_and_syntax: next(iter(...)) on a tree without the title
\* element raises StopIteration.
StopIteration(path) == progress[path] = "head"

\* collect_api_information(read_xml_file(path)) for a file that parses and
\* holds its title.
ReadApiInformation(path) ==
    collect_api_information(
        disk[path].title,
        IF progress[path] = "whole" THEN disk[path].syntax ELSE <<>>)

\* Variant: a loop that runs one pass past the budget.
ReadContinuesOnePastBudget(i) == i <= DefaultAttempts

\* while i < attempts
ReadContinues(i) == i < DefaultAttempts

-----------------------------------------------------------------------------
(* One call of process_cpp_html_file or process_blueprint_html_file, as    *)
(* the state of the worker that runs it.                                   *)

IdleWorker ==
    [pc |-> "idle", file |-> <<>>, xml |-> NoXml, info |-> NoApiResult,
     has |-> FALSE, c |-> 0, e |-> 0, coll |-> <<>>, anchors |-> <<>>,
     entries |-> <<>>, error |-> "none",
     i |-> 0, tries |-> 0, reading |-> FALSE]

Busy(w) == wk[w].pc \notin {"idle", "failed"}

\* The next collector of the table, after c, whose XPath selects an element;
\* a collector that selects none leaves the page and the entries as they are.
NextCollector(fl, xml, c) ==
    LET table == Collectors(fl)
        later == {k \in (c + 1)..Len(table) : xml.elems[table[k].xpath] # <<>>}
    IN  IF later = {} THEN Len(table) + 1
        ELSE CHOOSE k \in later : \A j \in later : k <= j

\* collector_cpp_nohref
collector_cpp_nohref(elements, parent_api_information, html_path) ==
    [k \in 1..Len(elements) |->
        LET name == IF parent_api_information.ue_type # "none"
                    THEN parent_api_information.name \o <<".">> \o elements[k].text
                    ELSE elements[k].text
        IN  <<name, FragmentPath(html_path, name), k>>]

\* The worker at the start of collector c, or at the write-back when the
\* table is exhausted.
EnterCollector(fl, st, c) ==
    IF c > Len(Collectors(fl))
    THEN [st EXCEPT !.pc = "write", !.c = c, !.e = 0, !.coll = <<>>]
    ELSE LET col == Collectors(fl)[c]
             fresh == [st EXCEPT !.c = c, !.e = 1,
                                 !.anchors = AnchorsAtCollectorStart(st.anchors)]
         IN  IF col.processor = "collector_cpp_nohref"
             THEN [fresh EXCEPT !.pc = "emit",
                      !.coll = collector_cpp_nohref(st.xml.elems[col.xpath],
                                                    st.info, st.file)]
             ELSE [fresh EXCEPT !.pc = "collect", !.coll = <<>>]

\* The collector's loop has handled element st.e.
AfterCollect(fl, st) ==
    LET elements == st.xml.elems[Collectors(fl)[st.c].xpath]
    IN  IF st.e < Len(elements) THEN [st EXCEPT !.e = st.e + 1]
        ELSE IF st.coll = <<>>
             THEN EnterCollector(fl, st, NextCollector(fl, st.xml, st.c))
             ELSE [st EXCEPT !.pc = "emit", !.e = 1]

\* The page processor's loop has handled pair st.e of the collection.
AfterEmit(fl, st) ==
    IF st.e < Len(st.coll) THEN [st EXCEPT !.e = st.e + 1]
    ELSE EnterCollector(fl, st, NextCollector(fl, st.xml, st.c))

\* One pass of the loop of read_xml_file that ended in a ParserError.
ReadFailed(st) ==
    LET i == (IF st.reading THEN st.i ELSE 0) + 1
        tries == (IF st.reading THEN st.tries ELSE 0) + 1
    IN  IF ReadContinues(i)
        THEN [st EXCEPT !.i = i, !.tries = tries, !.reading = TRUE]
        ELSE [st EXCEPT !.i = i, !.tries = tries, !.reading = FALSE,
                        !.pc = "failed", !.error = "RuntimeError"]

\* One pass of the loop of read_xml_file that returned the tree.
ReadReturned(st) ==
    [st EXCEPT !.i = IF st.reading THEN st.i ELSE 0,
               !.tries = (IF st.reading THEN st.tries ELSE 0) + 1,
               !.reading = FALSE]

Raised(st, error) == [st EXCEPT !.pc = "failed", !.error = error]

\* The index of the candidate element the anchor of pair e is put before:
\* elements[i], i the index of the pair in the collection.
AnchorTarget(e) == e

\* The anchor injection of the C++ page processor for pair number e.
InjectCppAnchor(fl, st, collected_name, collected_type) ==
    LET anchor_name == LocalAnchorName(collected_name)
        suffix == IF anchor_name \in Range(st.anchors)
                  THEN OverloadSuffix(Count(st.anchors, anchor_name))
                  ELSE <<>>
        anchor == [xpath |-> Collectors(fl)[st.c].xpath,
                   before |-> AnchorTarget(st.e),
                   scheme |-> "cpp", type |-> collected_type,
                   name |-> HtmlEscape(anchor_name \o suffix),
                   local |-> anchor_name, from |-> st.coll[st.e][3]]
    IN  [st EXCEPT !.anchors = Append(st.anchors, anchor_name),
                   !.xml.anchors = Append(st.xml.anchors, anchor)]

\* The anchor injection of the Blueprint page processor for pair number e.
InjectBlueprintAnchor(fl, st, collected_name, collected_type) ==
    LET anchor == [xpath |-> Collectors(fl)[st.c].xpath,
                   before |-> AnchorTarget(st.e),
                   scheme |-> "blueprint", type |-> collected_type,
                   name |-> HtmlEscape(collected_name),
                   local |-> collected_name, from |-> st.coll[st.e][3]]
    IN  [st EXCEPT !.xml.anchors = Append(st.xml.anchors, anchor)]

\* The rest of the loop body for a pair whose target exists and whose type
\* is settled: the anchor (add_dash_anchors is True) and the Entry.
Emit(fl, st, collected_name, collected_html_path, collected_type) ==
    LET anchored ==
            IF ~st.has
            THEN IF fl = "blueprint"
                 THEN InjectBlueprintAnchor(fl, st, collected_name, collected_type)
                 ELSE InjectCppAnchor(fl, st, collected_name, collected_type)
            ELSE st
    IN  [anchored EXCEPT !.entries =
            Append(anchored.entries,
                   Entry(collected_name, collected_html_path, collected_type))]

-----------------------------------------------------------------------------
(* The steps of a page call.  A step ends at each access to a file, so     *)
(* that the calls of several workers interleave at the file accesses.      *)

\* What a read of the whole file returns, once parsed.
Visible(path) ==
    IF progress[path] = "whole" THEN disk[path]
    ELSE [NoXml EXCEPT !.title = disk[path].title]

\* The worker is between its read of page p and the end of its write-back.
Processing(w, p) ==
    /\ wk[w].file = p
    /\ wk[w].pc \in {"collect", "emit", "write", "flush"}

OthersProcessing(w, p) == \E v \in DOMAIN wk : v # w /\ Processing(v, p)

\* Variant: a dispatch that leaves the file in the list.
DispatchAgain(q, f) == q

\* process_map hands every file of html_files to one call.
Dispatch(q, f) == q \ {f}

\* A worker of the pool starts process_*_html_file on a file of html_files.
StartTask(w, f) ==
    /\ mainPc = "processing"
    /\ wk[w].pc = "idle"
    /\ f \in queue
    /\ \A v \in DOMAIN wk : wk[v].pc # "failed"
    /\ queue' = Dispatch(queue, f)
    /\ wk' = [wk EXCEPT ![w] = [IdleWorker EXCEPT !.pc = "read", !.file = f]]
    /\ runs' = runs + 1
    /\ UNCHANGED <<flavor, mainPc, disk, progress, results, entries, database,
                   plist, writes, touching, apiName, apiSyntax, apiResult>>

\* xml = read_xml_file(html_path) up to has_dash_anchors.
ReadOwn(w) ==
    /\ wk[w].pc = "read"
    /\ LET st == wk[w]
           f == st.file
           xml == rewrite_links(Visible(f), f)
       IN  wk' = [wk EXCEPT ![w] =
               IF ParserError(f) THEN ReadFailed(st)
               ELSE IF StopIteration(f)
                    THEN Raised(ReadReturned(st), "StopIteration")
                    ELSE EnterCollector(flavor,
                             [ReadReturned(st) EXCEPT
                                 !.xml = xml,
                                 !.info = collect_api_information(xml.title, xml.syntax),
                                 !.has = HasDashAnchors(xml)],
                             NextCollector(flavor, xml, 0))]
    /\ UNCHANGED <<flavor, mainPc, disk, progress, queue, results, entries,
                   database, plist, writes, touching, runs, apiName, apiSyntax,
                   apiResult>>

\* collector_cpp_default and collector_blueprint_default: one pass of the
\* loop over the elements, or one more attempt of its read_xml_file.
CollectStep(w) ==
    /\ wk[w].pc = "collect"
    /\ LET st == wk[w]
           col == Collectors(flavor)[st.c]
           element == st.xml.elems[col.xpath][st.e]
           collected_path == join_path(st.file, element.href)
           collected_name == ReadApiInformation(collected_path).name
           name == IF col.processor = "collector_blueprint_default"
                   THEN st.info.name \o <<".">> \o collected_name
                   ELSE collected_name
       IN  /\ wk' = [wk EXCEPT ![w] =
                  IF ~CollectedPathExists(collected_path)
                  THEN AfterCollect(flavor, st)
                  ELSE IF ParserError(collected_path) THEN ReadFailed(st)
                  ELSE IF StopIteration(collected_path)
                       THEN Raised(ReadReturned(st), "StopIteration")
                       ELSE AfterCollect(flavor,
                                [ReadReturned(st) EXCEPT !.coll =
                                    Append(st.coll, <<name, collected_path, st.e>>)])]
           /\ touching' = (touching \/ (CollectedPathExists(collected_path)
                                        /\ OthersProcessing(w, collected_path)))
    /\ UNCHANGED <<flavor, mainPc, disk, progress, queue, results, entries,
                   database, plist, writes, runs, apiName, apiSyntax, apiResult>>

\* The page processor's loop over the collection: one pass, or one more
\* attempt of the read_xml_file of the Class refinement.
EmitStep(w) ==
    /\ wk[w].pc = "emit"
    /\ LET st == wk[w]
           col == Collectors(flavor)[st.c]
           collected_name == st.coll[st.e][1]
           collected_html_path == st.coll[st.e][2]
           refines == flavor # "blueprint" /\ col.type = "Class"
       IN  /\ wk' = [wk EXCEPT ![w] =
                  IF ~CollectedHtmlPathExists(collected_html_path)
                  THEN AfterEmit(flavor, st)
                  ELSE IF ~refines
                       THEN AfterEmit(flavor,
                                Emit(flavor, st, collected_name,
                                     collected_html_path, col.type))
                  ELSE IF ParserError(collected_html_path) THEN ReadFailed(st)
                  ELSE IF StopIteration(collected_html_path)
                       THEN Raised(ReadReturned(st), "StopIteration")
                       ELSE AfterEmit(flavor,
                                Emit(flavor, ReadReturned(st), collected_name,
                                     collected_html_path,
                                     ReadApiInformation(collected_html_path).dash_type))]
           /\ touching' = (touching \/ (refines
                                        /\ CollectedHtmlPathExists(collected_html_path)
                                        /\ OthersProcessing(w, collected_html_path)))
    /\ UNCHANGED <<flavor, mainPc, disk, progress, queue, results, entries,
                   database, plist, writes, runs, apiName, apiSyntax, apiResult>>

\* with open(html_path, "w"): the file is truncated.
OpenForWrite(w) ==
    /\ wk[w].pc = "write"
    /\ LET f == wk[w].file
       IN  /\ progress' = [progress EXCEPT ![f] = "empty"]
           /\ disk' = [disk EXCEPT ![f] = wk[w].xml]
           /\ writes' = [writes EXCEPT ![f] = Append(writes[f], w)]
    /\ wk' = [wk EXCEPT ![w].pc = "flush"]
    /\ UNCHANGED <<flavor, mainPc, queue, results, entries, database, plist,
                   touching, runs, apiName, apiSyntax, apiResult>>

\* html_file.write(...) and the close: more of the serialized page reaches
\* the file; with all of it there the call returns its entries.
WriteChunk(w) ==
    /\ wk[w].pc = "flush"
    /\ LET f == wk[w].file
       IN  \E k \in (Level(progress[f]) + 1)..Len(ProgressLevels) :
               /\ progress' = [progress EXCEPT ![f] = ProgressLevels[k]]
               /\ IF k = Len(ProgressLevels)
                  THEN /\ wk' = [wk EXCEPT ![w] = IdleWorker]
                       /\ results' = results \cup Range(wk[w].entries)
                  ELSE UNCHANGED <<wk, results>>
    /\ UNCHANGED <<flavor, mainPc, disk, queue, entries, database, plist,
                   writes, touching, runs, apiName, apiSyntax, apiResult>>

-----------------------------------------------------------------------------
(* The page processor alone: one call after the other on one page, over    *)
(* bounded pages.                                                          *)

PagePath == <<"index.html">>

\* The link targets of the page's candidates: two directories that hold an
\* index.html, one that does not exist.
Hrefs == {<<"a">>, <<"b">>, <<"gone">>}

Links == {Element("a", h, <<>>) : h \in Hrefs}

Paragraphs == {Element("p", <<>>, <<"x">>)}

\* The declaration texts the processed C++ page P may carry: one naming a
\* class, and an empty one that the classifier leaves at the default
\* "object".  The blueprint processor reads only the name of the page's
\* classification, so its page carries the first.
PageSyntaxes == {<<"class", " ", "P">>, <<>>}

\* The page P with the pages its links may reach: a/index.html declares the
\* class F; b/index.html, titled N::F, declares the nested struct by its
\* short name, so that no "<kind> N::F" occurs in its declaration text.
PageTree(syntax, elems) ==
    (PagePath :> Page(<<"P">>, syntax, elems))
    @@ (<<"a", "index.html">> :> Page(<<"F">>, <<"class", " ", "F">>, <<>>))
    @@ (<<"b", "index.html">> :>
            Page(<<"N", "::", "F">>, <<"struct", " ", "F">>, <<>>))

InitPage ==
    /\ flavor \in {"cpp", "blueprint"}
    /\ mainPc = "processing"
    /\ \E l1 \in SeqsUpTo(Links, MaxCands), l2 \in SeqsUpTo(Links, MaxCands),
          l3 \in SeqsUpTo(Paragraphs, 1), x1 \in {"classes/a", "functions_/a"},
          syntax \in (IF flavor = "blueprint" THEN {<<"class", " ", "P">>}
                      ELSE PageSyntaxes) :
           disk = PageTree(syntax,
                    IF flavor = "blueprint"
                    THEN ("actions/a" :> l1) @@ ("categories/a" :> l2)
                    ELSE (x1 :> l1) @@ ("variables/p" :> l3)
                         @@ ("deprecatedfunctions/a" :> l2))
    /\ progress = [f \in DOMAIN disk |-> "whole"]
    /\ queue = {PagePath}
    /\ wk = [w \in {1} |-> IdleWorker]
    /\ results = {}
    /\ entries = {}
    /\ database = {}
    /\ plist = <<>>
    /\ writes = [f \in DOMAIN disk |-> <<>>]
    /\ touching = FALSE
    /\ runs = 0
    /\ apiName = <<>>
    /\ apiSyntax = <<>>
    /\ apiResult = NoApiResult

\* The page processor is called on the page once more.
Rerun ==
    /\ queue = {}
    /\ \A w \in DOMAIN wk : wk[w].pc = "idle"
    /\ runs < MaxRuns
    /\ queue' = {PagePath}
    /\ UNCHANGED <<flavor, mainPc, disk, progress, wk, results, entries, database,
                   plist, writes, touching, runs, apiName, apiSyntax, apiResult>>

NextPage ==
    \/ \E w \in DOMAIN wk : \E f \in queue : StartTask(w, f)
    \/ \E w \in DOMAIN wk : ReadOwn(w)
    \/ \E w \in DOMAIN wk : CollectStep(w)
    \/ \E w \in DOMAIN wk : EmitStep(w)
    \/ \E w \in DOMAIN wk : OpenForWrite(w)
    \/ \E w \in DOMAIN wk : WriteChunk(w)
    \/ Rerun

SpecPage == InitPage /\ [][NextPage]_vars

-----------------------------------------------------------------------------
(* generate_docset: the archive is unpacked, the pool of workers runs the  *)
(* page processor over every HTML file, the index is written and then the  *)
(* manifest.                                                               *)

\* The pages of the unpacked archive, below the API directory: a root page
\* that lists the page of F, which lists the page of its member F::G.
Archive(fl) ==
    (<<"index.html">> :>
        Page(<<"R">>, <<>>,
             IF fl = "blueprint"
             THEN "categories/a" :> <<Element("a", <<"Foo">>, <<>>)>>
             ELSE "classes/a" :> <<Element("a", <<"Foo">>, <<>>)>>))
    @@ (<<"Foo", "index.html">> :>
        Page(<<"F">>, <<"class", " ", "F">>,
             IF fl = "blueprint"
             THEN "actions/a" :> <<Element("a", <<"g">>, <<>>)>>
             ELSE "functions_/a" :> <<Element("a", <<"g">>, <<>>)>>))
    @@ (<<"Foo", "g", "index.html">> :>
        Page(<<"F", "::", "G">>, <<>>, <<>>))

\* api_directory, relative to the Documents directory.
ApiDirectory(fl) ==
    IF fl = "blueprint" THEN <<"en-US", "BlueprintAPI">> ELSE <<"en-US", "API">>

\* The head of generate_docset: the flavor is read off the archive name,
\* the archive is unpacked and the docset processor lists the HTML files.
GenerateDocset ==
    /\ mainPc = "start"
    /\ IF flavor \notin {"blueprint", "cpp"}
       THEN /\ mainPc' = "unsupported"
            /\ UNCHANGED <<disk, progress, queue, writes>>
       ELSE /\ mainPc' = "processing"
            /\ disk' = Archive(flavor)
            /\ progress' = [f \in DOMAIN Archive(flavor) |-> "whole"]
            /\ queue' = DOMAIN Archive(flavor)
            /\ writes' = [f \in DOMAIN Archive(flavor) |-> <<>>]
    /\ UNCHANGED <<flavor, wk, results, entries, database, plist, touching,
                   runs, apiName, apiSyntax, apiResult>>

\* Variant: a map that returns once every file is handed out.
AllDispatched == queue = {}

\* process_map returns when every call has returned its entries.
AllWorkersComplete ==
    /\ queue = {}
    /\ \A w \in DOMAIN wk : wk[w].pc = "idle"

\* set(chain(*process_map(...)))
ProcessMapReturns ==
    /\ mainPc = "processing"
    /\ AllWorkersComplete
    /\ entries' = results
    /\ mainPc' = "database"
    /\ UNCHANGED <<flavor, disk, progress, queue, wk, results, database, plist,
                   writes, touching, runs, apiName, apiSyntax, apiResult>>

\* An exception of a page call is raised again by process_map, once the
\* pool has shut down, and ends generate_docset.
ProcessMapRaises ==
    /\ mainPc = "processing"
    /\ \E w \in DOMAIN wk : wk[w].pc = "failed"
    /\ \A w \in DOMAIN wk : wk[w].pc \in {"idle", "failed"}
    /\ mainPc' = "failed"
    /\ UNCHANGED <<flavor, disk, progress, queue, wk, results, entries, database,
                   plist, writes, touching, runs, apiName, apiSyntax, apiResult>>

\* generate_database: one row per (name, type, path), the path relative to
\* the Documents directory; INSERT OR IGNORE, then the commit.
generate_database(fl, ens) ==
    {[name |-> en.name, type |-> en.type, path |-> ApiDirectory(fl) \o en.path] :
        en \in ens}

GenerateDatabase ==
    /\ mainPc = "database"
    /\ database' = generate_database(flavor, entries)
    /\ mainPc' = "plist"
    /\ UNCHANGED <<flavor, disk, progress, queue, wk, results, entries, plist,
                   writes, touching, runs, apiName, apiSyntax, apiResult>>

\* The mapping generate_docset hands to generate_plist.
PlistMapping(fl) ==
    LET docset_name == IF fl = "blueprint" THEN "UnrealEngineBlueprint.docset"
                       ELSE "UnrealEngineCpp.docset"
        label == IF fl = "blueprint" THEN "Blueprint" ELSE "C++"
        online == IF fl = "blueprint"
                  THEN "https://docs.unrealengine.com/en-US/BlueprintAPI"
                  ELSE "https://docs.unrealengine.com/en-US/API"
        mapping ==
            << <<"CFBundleIdentifier", "string", docset_name>>,
               <<"CFBundleName", "string", "Unreal Engine " \o label \o " Docset">>,
               <<"DashDocSetDeclaredInStyle", "string", "originalName">>,
               <<"DashDocSetFallbackURL", "string", online>>,
               <<"DashDocSetFamily", "string", "python">>,
               <<"DocSetPlatformFamily", "string", "Unreal Engine">>,
               <<"isDashDocset", "true", "None">>,
               <<"isJavaScriptEnabled", "true", "None">> >>
    IN  IF fl = "cpp"
        THEN Append(mapping, <<"dashIndexFilePath", "string", "en-US/API/index.html">>)
        ELSE IF fl = "cpp"
        THEN Append(mapping, <<"dashIndexFilePath", "string",
                               "en-US/BluepringAPI/index.html">>)
        ELSE mapping

GeneratePlist ==
    /\ mainPc = "plist"
    /\ plist' = PlistMapping(flavor)
    /\ mainPc' = "done"
    /\ UNCHANGED <<flavor, disk, progress, queue, wk, results, entries, database,
                   writes, touching, runs, apiName, apiSyntax, apiResult>>

InitDocset ==
    /\ flavor \in {"cpp", "blueprint", "other"}
    /\ mainPc = "start"
    /\ disk = <<>>
    /\ progress = <<>>
    /\ queue = {}
    /\ wk = [w \in 1..NumWorkers |-> IdleWorker]
    /\ results = {}
    /\ entries = {}
    /\ database = {}
    /\ plist = <<>>
    /\ writes = <<>>
    /\ touching = FALSE
    /\ runs = 0
    /\ apiName = <<>>
    /\ apiSyntax = <<>>
    /\ apiResult = NoApiResult

Next ==
    \/ GenerateDocset
    \/ \E w \in DOMAIN wk : \E f \in queue : StartTask(w, f)
    \/ \E w \in DOMAIN wk : ReadOwn(w)
    \/ \E w \in DOMAIN wk : CollectStep(w)
    \/ \E w \in DOMAIN wk : EmitStep(w)
    \/ \E w \in DOMAIN wk : OpenForWrite(w)
    \/ \E w \in DOMAIN wk : WriteChunk(w)
    \/ ProcessMapReturns
    \/ ProcessMapRaises
    \/ GenerateDatabase
    \/ GeneratePlist

Spec == InitDocset /\ [][Next]_vars

-----------------------------------------------------------------------------
(* The classifier alone, over bounded titles and declaration texts.        *)

ApiNames == {<<"F">>, <<"G">>, <<"F", "G">>, <<"F", ".">>, <<"F", "(">>}

DeclIdents == {<<"F">>, <<"G">>, <<"F", "G">>, <<"F", "(">>}

Declarations == {<<kw, " ">> \o id : kw \in Keywords, id \in DeclIdents}

\* "\n".join(element.text_content() for element in ...)
RECURSIVE JoinLines(_)
JoinLines(ds) ==
    IF ds = <<>> THEN <<>>
    ELSE IF Len(ds) = 1 THEN ds[1]
    ELSE ds[1] \o <<"\n">> \o JoinLines(Tail(ds))

Classify ==
    /\ apiResult = NoApiResult
    /\ apiResult' = collect_api_information(apiName, apiSyntax)
    /\ UNCHANGED <<flavor, mainPc, disk, progress, queue, wk, results, entries,
                   database, plist, writes, touching, runs, apiName, apiSyntax>>

\* No docset run: the classifier is applied to a tree on its own.
InitIdleDocset ==
    /\ flavor = "cpp"
    /\ mainPc = "idle"
    /\ disk = <<>>
    /\ progress = <<>>
    /\ queue = {}
    /\ wk = <<>>
    /\ results = {}
    /\ entries = {}
    /\ database = {}
    /\ plist = <<>>
    /\ writes = <<>>
    /\ touching = FALSE
    /\ runs = 0

InitClassify ==
    /\ InitIdleDocset
    /\ apiName \in ApiNames
    /\ apiSyntax \in {JoinLines(ds) : ds \in SeqsUpTo(Declarations, MaxDecls)}
    /\ apiResult = NoApiResult

NextClassify == Classify

SpecClassify == InitClassify /\ [][NextClassify]_vars

-----------------------------------------------------------------------------
(* Properties of the page processors.                                      *)

AllEntries ==
    results \cup entries \cup UNION {Range(wk[w].entries) : w \in DOMAIN wk}

\* The candidate elements of a page whose link target does not exist.
MissingCandidates(f) ==
    {<<x, k>> \in XPaths \X (1..MaxCands + 1) :
        /\ k <= Len(disk[f].elems[x])
        /\ disk[f].elems[x][k].tag = "a"
        /\ join_path(f, disk[f].elems[x][k].href) \notin DOMAIN disk}

PageDone ==
    /\ queue = {}
    /\ \A w \in DOMAIN wk : wk[w].pc = "idle"

\* C1: every Entry a page processor builds, and so every Entry of the set
\* the docset processor returns, has a path that names an existing file; a
\* pair whose target does not exist never becomes an Entry.
C1_EntryPathsExist == \A en \in AllEntries : en.path \in DOMAIN disk

C1_Witness ==
    /\ PageDone
    /\ results # {}
    /\ MissingCandidates(PagePath) # {}
    /\ disk[PagePath].elems["variables/p"] # <<>>

\* The number of anchors before the j-th of the page with its local name.
EarlierSameName(as, j) ==
    Cardinality({i \in 1..(j - 1) : as[i].local = as[j].local})

\* C2: over all the anchors injected into a page by the C++ processor, in
\* table order, the first with a given local name is named by the bare
\* name and the k-th later one by the name suffixed " (Overload k)".
C2_OverloadsNumberedPerPage ==
    \A f \in DOMAIN disk :
        LET as == disk[f].anchors
        IN  \A j \in 1..Len(as) :
                as[j].scheme = "cpp" =>
                    as[j].name =
                        HtmlEscape(as[j].local \o
                            (IF EarlierSameName(as, j) = 0 THEN <<>>
                             ELSE OverloadSuffix(EarlierSameName(as, j))))

\* C3: every injected anchor stands before the candidate element its Entry
\* was extracted from, and no anchor stands before a candidate that was
\* dropped because its target does not exist.
C3_AnchorBeforeItsCandidate ==
    \A f \in DOMAIN disk :
        \A a \in Range(disk[f].anchors) :
            a.scheme = "cpp" =>
                /\ a.before = a.from
                /\ <<a.xpath, a.before>> \notin MissingCandidates(f)

\* C5: a page that holds a Dash anchor keeps exactly its anchors through
\* every later run of the page processor over it.
C5_AnchorsInjectedOnce ==
    [][\A f \in DOMAIN disk :
          disk[f].anchors # <<>> => disk'[f].anchors = disk[f].anchors]_vars

C5_Witness ==
    /\ PageDone
    /\ runs = 2
    /\ disk[PagePath].anchors # <<>>
    /\ writes[PagePath] = <<1, 1>>

-----------------------------------------------------------------------------
(* Properties of the reader and of the parallel run.                       *)

\* C4: read_xml_file makes at most 10 attempts, returns the tree of the
\* first attempt that parses, and raises only after 10 attempts that each
\* ended in a parse error.
C4_ReadBudget ==
    \A w \in DOMAIN wk :
        /\ wk[w].tries <= 10
        /\ wk[w].error = "RuntimeError" => (wk[w].tries = 10 /\ wk[w].i = 10)
        /\ wk[w].reading => (wk[w].i = wk[w].tries /\ wk[w].tries < 10)
        /\ (~wk[w].reading /\ wk[w].tries > 0 /\ wk[w].error # "RuntimeError")
               => wk[w].tries = wk[w].i + 1

C4_Witness ==
    \E v, w \in DOMAIN wk :
        /\ wk[v].error = "RuntimeError" /\ wk[v].tries = 10
        /\ wk[w].pc = "flush"

\* C6, as claimed: no worker reads or writes a page while another worker
\* is between its read and its write-back of that page.
C6_NoWorkerTouchesAProcessedPage == ~touching

\* The entries of a run in which every read finds the whole of its file.
ExpectedEntries ==
    UNION {
        {Entry(IF col.processor = "collector_blueprint_default"
               THEN disk[f].title \o <<".">> \o disk[t].title
               ELSE disk[t].title,
               t,
               IF flavor # "blueprint" /\ col.type = "Class"
               THEN collect_api_information(disk[t].title, disk[t].syntax).dash_type
               ELSE col.type) :
            t \in {join_path(f, localiser(f, disk[f].elems[col.xpath][k].href)) :
                      k \in 1..Len(disk[f].elems[col.xpath])} \cap DOMAIN disk} :
        f \in DOMAIN disk,
        col \in {c \in Range(Collectors(flavor)) : c.processor # "collector_cpp_nohref"}}

\* C7: the set of entries the docset processor returns does not depend on
\* the assignment of the files to the workers or on their interleaving.
C7_EntriesIndependentOfInterleaving ==
    mainPc \in {"database", "plist", "done"} => entries = ExpectedEntries

C9_StagesOrdered ==
    /\ mainPc \in {"database", "plist", "done"} =>
           (queue = {} /\ \A w \in DOMAIN wk : wk[w].pc = "idle")
    /\ database # {} =>
           (mainPc \in {"plist", "done"} /\ \A w \in DOMAIN wk : wk[w].pc = "idle")
    /\ plist # <<>> =>
           (mainPc = "done" /\ database # {}
            /\ database = generate_database(flavor, entries))
    /\ ((\E w \in DOMAIN wk : wk[w].pc = "failed") \/ flavor \notin {"cpp", "blueprint"})
           => (plist = <<>> /\ database = {})

C9_Witness ==
    /\ mainPc = "failed"
    /\ \E w \in DOMAIN wk : wk[w].error = "RuntimeError"
    /\ \E f \in DOMAIN disk : Len(writes[f]) = 1 /\ progress[f] = "whole"
    /\ plist = <<>>

-----------------------------------------------------------------------------
\* C10: collect_api_information returns the first sourceKind, in the order
\* class, UCLASS, struct, USTRUCT, union, whose text "<sourceKind> <name>"
\* occurs in the declaration text with the name read as literal text, with
\* its mapped entryKind; it returns object/Object when none occurs.
LiteralContains(pattern, text) ==
    \E o \in 1..(Len(text) - Len(pattern) + 1) :
        SubSeq(text, o, o + Len(pattern) - 1) = pattern

LiteralKinds(api_name, api_syntax) ==
    {k \in 1..Len(MAPPING_API_TYPE_TO_ENTRY_TYPE) :
        LiteralContains(ApiPattern(MAPPING_API_TYPE_TO_ENTRY_TYPE[k][1], api_name),
                        api_syntax)}

LiteralClassification(api_name, api_syntax) ==
    LET ks == LiteralKinds(api_name, api_syntax)
    IN  IF ks = {} THEN ApiInformation(api_name, "object", "Object")
        ELSE LET k == CHOOSE x \in ks : \A y \in ks : x <= y
             IN  ApiInformation(api_name, MAPPING_API_TYPE_TO_ENTRY_TYPE[k][1],
                                MAPPING_API_TYPE_TO_ENTRY_TYPE[k][2])

C10_ClassifiesLiterally ==
    apiResult # NoApiResult =>
        apiResult = LiteralClassification(apiName, apiSyntax)

-----------------------------------------------------------------------------
\* C11: for each supported flavor the manifest written by generate_docset
\* holds an index file path entry pointing at that flavor's index.html:
\* en-US/API/index.html for cpp, en-US/BlueprintAPI/index.html for blueprint.
FlavorIndexPath(fl) ==
    IF fl = "blueprint" THEN "en-US/BlueprintAPI/index.html"
    ELSE "en-US/API/index.html"

C11_ManifestHasFlavorIndexPath ==
    mainPc = "done" =>
        \E k \in 1..Len(plist) :
            plist[k] = <<"dashIndexFilePath", "string", FlavorIndexPath(flavor)>>

-----------------------------------------------------------------------------
\* C12: collector_cpp_nohref names a candidate parentName.memberName only
\* when the containing page classifies as class, UCLASS, struct, USTRUCT or
\* union; when the page classifies as the default "object" the name is the
\* element's own text; either way the target is pagePath#name.
NoLinkName(parent_api_information, text) ==
    IF parent_api_information.ue_type \in Keywords
    THEN parent_api_information.name \o <<".">> \o text
    ELSE text

InNoLinkCollection(w) ==
    /\ wk[w].pc = "emit"
    /\ Collectors(flavor)[wk[w].c].processor = "collector_cpp_nohref"

C12_NoLinkNamesQualifiedUnderTypedParentOnly ==
    \A w \in DOMAIN wk :
        InNoLinkCollection(w) =>
            LET st == wk[w]
                elements == st.xml.elems[Collectors(flavor)[st.c].xpath]
            IN  /\ Len(st.coll) = Len(elements)
                /\ \A k \in 1..Len(st.coll) :
                       LET name == NoLinkName(st.info, elements[k].text)
                       IN  /\ st.coll[k][1] = name
                           /\ st.coll[k][2] = FragmentPath(st.file, name)

-----------------------------------------------------------------------------
\* C13: in the C++ page processor every Entry produced by the Class
\* collector has a kind in {Class, Struct, Union}, the classification of its
\* target page, and every Entry produced by any other collector has that
\* collector's entry kind.
RefinedKinds == {"Class", "Struct", "Union"}

\* The worker appends an Entry in this step.
ProducesEntry(w) ==
    /\ wk[w].pc = "emit"
    /\ Len(wk'[w].entries) = Len(wk[w].entries) + 1

C13_EntryKindsByCollector ==
    [][\A w \in DOMAIN wk :
          (flavor = "cpp" /\ ProducesEntry(w)) =>
              LET collector == Collectors(flavor)[wk[w].c]
                  entry == Last(wk'[w].entries)
                  target == disk[entry.path]
              IN  IF collector.type = "Class"
                  THEN /\ entry.type \in RefinedKinds
                       /\ entry.type =
                              collect_api_information(target.title,
                                                      target.syntax).dash_type
                  ELSE entry.type = collector.type]_vars

-----------------------------------------------------------------------------
\* C14: the no-link Variable collectors never contribute to the result of
\* the C++ page processor: every pair they produce has the target
\* pagePath#name, the existence check is applied to that whole string, and
\* unless a file of literally that name exists the pair gives no Entry and
\* no anchor.
NoLinkXPaths ==
    {c.xpath : c \in {d \in Range(COLLECTORS_CPP) :
                          d.processor = "collector_cpp_nohref"}}

\* The pages as they are on disk and as the workers hold them.
Trees == {disk[f] : f \in DOMAIN disk} \cup {wk[w].xml : w \in DOMAIN wk}

HasFragment(path) == \E k \in 1..Len(path) : path[k] = "#"

C14_NoLinkPairsNeverContribute ==
    /\ \A w \in DOMAIN wk :
           InNoLinkCollection(w) =>
               \A k \in 1..Len(wk[w].coll) :
                   wk[w].coll[k][2] = wk[w].file \o <<"#">> \o wk[w].coll[k][1]
    /\ \A en \in AllEntries : HasFragment(en.path) => en.path \in DOMAIN disk
    /\ \A t \in Trees : \A k \in 1..Len(t.anchors) :
           t.anchors[k].xpath \in NoLinkXPaths =>
               \E f \in DOMAIN disk : HasFragment(f)

C14_Witness ==
    /\ flavor = "cpp"
    /\ PageDone
    /\ writes[PagePath] # <<>>
    /\ disk[PagePath].elems["variables/p"] # <<>>
    /\ disk[PagePath].anchors # <<>>
    /\ \A en \in results : ~HasFragment(en.path)

====
